---- MODULE Spec2Model ----
(***************************************************************************)
(* Model of the FUGA client library (src/fuga): the paginated list         *)
(* generators, the chunked upload of FUGAClient.upload_file and the        *)
(* update_or_create_* / update_tracks synchronisation operations.          *)
(*                                                                         *)
(* The specifications share the variables: SpecPage drives one list        *)
(* generator, SpecUpload one upload_file call, SpecSync one (or two        *)
(* consecutive) synchronisation calls, SpecRequest one request() call,     *)
(* SpecUploadEntry an upload through an asset's or product's upload        *)
(* method, SpecUploadPair and SpecPagePair two interleaved calls.          *)
(***************************************************************************)
EXTENDS Integers, Sequences, FiniteSets, TLC

\* ------------------------------------------------------------------------
\* Bounds of the model
\* ------------------------------------------------------------------------
MaxTotal == 5
MaxPageSize == 3
MaxLimit == 6
MaxStartPage == 1

MaxSize == 4
MaxChunkSize == 2
MaxExisting == 2
MaxDesired == 2
MaxFailures == 1
MaxPairSize == 1
MaxPairTotal == 3
MaxPairPageSize == 2
MaxPairLimit == 2

\* limit=None of the generators
NoLimit == -1

Min(a, b) == IF a <= b THEN a ELSE b
Max(a, b) == IF a >= b THEN a ELSE b

VARIABLES
    \* ---- list generator (fetch_list / subgenre_list / fetch_products)
    pgTotal,        \* number of items the endpoint holds
    pgSize,         \* params["page_size"]
    pgLimit,        \* limit argument (NoLimit for None)
    pgStart,        \* page argument
    pgPage,         \* params["page"]
    pgResp,         \* response of the last request: [items, total]
    pgIdx,          \* position of the for loop in the page's items
    fetched_count,  \* fetched_count
    pgYielded,      \* items delivered to the consumer, in order
    pgRequests,     \* page indices requested, in order
    pgPc            \* "request" | "iterate" | "yielded" | "check" | "done" | "raised"

pageVars == <<pgTotal, pgSize, pgLimit, pgStart, pgPage, pgResp, pgIdx,
              fetched_count, pgYielded, pgRequests, pgPc>>

VARIABLES
    \* ---- FUGAClient.upload_file
    upSource,         \* the file_path argument: [kind, name, content]
    file_path,        \* "arg" (the argument as given) | "tmp" (the downloaded copy)
    disk,             \* local files: path -> bytes
    chunk_size,       \* chunk_size
    upload_id,        \* upload_session["id"]
    total_file_size,  \* os.stat(file_abs_path).st_size
    total_chunks,     \* math.ceil(total_file_size / chunk_size)
    file_hash,        \* bytes fed to the md5 accumulator, in order
    filePos,          \* read position of the open file
    part_index,       \* enumerate index of the current chunk
    chunk,            \* the chunk read last
    upLog,            \* requests issued and files read, in order
    upResult,         \* [out |-> "none" | "return" | "raise", val]
    upPc              \* "resolve" | "start" | "read" | "send" | "finish" | "done"

uploadVars == <<upSource, file_path, disk, chunk_size, upload_id, total_file_size,
                total_chunks, file_hash, filePos, part_index, chunk, upLog,
                upResult, upPc>>

VARIABLES
    \* ---- update_or_create_* and update_tracks
    rel,            \* which operation is called
    parent_id,      \* whether self.artist_id / asset_id / product_id is set
    remote,         \* the collection held by the remote system
    existing,       \* the list fetched at the start of the call
    desired,        \* the list argument
    syPc,           \* "fetch" | "desired" | "add" | "remove" | "reorder" | "return" | "done"
    syIdx,          \* position of the current loop
    calls,          \* scoped requests issued, in order
    identifiers_to_update_in_cm,
    syResult,       \* outcome of the call
    run,            \* 1 for the first invocation, 2 for the repeated one
    failures        \* failed add/update/remove/reposition calls so far

syncVars == <<rel, parent_id, remote, existing, desired, syPc, syIdx, calls,
              identifiers_to_update_in_cm, syResult, run, failures>>

VARIABLES
    \* ---- one FUGAClient.request call
    reqMethod,      \* method argument
    reqResp,        \* what requests.request comes back with
    reqResult,      \* outcome of the call
    reqPc           \* "call" | "done"

requestVars == <<reqMethod, reqResp, reqResult, reqPc>>

VARIABLES
    \* ---- the caller of upload_file
    upEntry,        \* the method the caller invokes
    owner_id        \* whether self.asset_id / self.product_id is set

entryVars == <<upEntry, owner_id>>

VARIABLES
    \* ---- a second call, suspended while the first one runs
    upOther,        \* the locals of the suspended upload_file call
    pgOther         \* the locals of the suspended generator

pairVars == <<upOther, pgOther>>

vars == <<pageVars, uploadVars, syncVars, requestVars, entryVars, pairVars>>

\* ------------------------------------------------------------------------
\* The list endpoint: a fixed collection of pgTotal items 0..pgTotal-1,
\* page p holding the items [p*page_size, (p+1)*page_size).
\* ------------------------------------------------------------------------
PageLen(total, size, p) == Max(0, Min(size, total - p * size))

PageItems(total, size, p) ==
    [i \in 1..PageLen(total, size, p) |-> p * size + i - 1]

\* the limit test taken one item too late
LimitReachedLate(limit, count) ==
    /\ limit # NoLimit
    /\ limit # 0
    /\ count > limit

\* `limit and fetched_count >= limit`: None and 0 are falsy
LimitReached(limit, count) ==
    /\ limit # NoLimit
    /\ limit # 0
    /\ count >= limit

\* the break test without `fetched_count >= total`
PageExhaustedOnEmptyOnly(items, count, total) == Len(items) = 0

\* the break test without `not assets`
PageExhaustedByCountOnly(items, count, total) == count >= total

\* `not assets or fetched_count >= total`
PageExhausted(items, count, total) ==
    \/ Len(items) = 0
    \/ count >= total

\* the count started at the offset of the start page
PageIdleCountFromOffset ==
    /\ pgPage = pgStart
    /\ pgResp = [items |-> <<>>, total |-> 0]
    /\ pgIdx = 0
    /\ fetched_count = pgStart * pgSize
    /\ pgYielded = <<>>
    /\ pgRequests = <<>>

\* the generator before its first request
PageIdle ==
    /\ pgPage = pgStart
    /\ pgResp = [items |-> <<>>, total |-> 0]
    /\ pgIdx = 0
    /\ fetched_count = 0
    /\ pgYielded = <<>>
    /\ pgRequests = <<>>

\* response = client.request("GET", endpoint, params=params)
PageRequest ==
    /\ pgPc = "request"
    /\ pgRequests' = Append(pgRequests, pgPage)
    /\ pgResp' = [items |-> PageItems(pgTotal, pgSize, pgPage), total |-> pgTotal]
    /\ pgIdx' = 1
    /\ pgPc' = "iterate"
    /\ UNCHANGED <<pgTotal, pgSize, pgLimit, pgStart, pgPage, fetched_count, pgYielded>>

\* the same request against an endpoint that answers as it likes: any number
\* of items up to page_size and any total, read anew from each response
\* (response.get("asset", []), response.get("total", 0)); the generator never
\* looks into an item, so the items are numbered in the order served
PageRequestAny ==
    /\ pgPc = "request"
    /\ pgRequests' = Append(pgRequests, pgPage)
    /\ \E n \in 0..pgSize, t \in 0..MaxTotal :
        pgResp' = [items |-> [i \in 1..n |-> Len(pgYielded) + i - 1], total |-> t]
    /\ pgIdx' = 1
    /\ pgPc' = "iterate"
    /\ UNCHANGED <<pgTotal, pgSize, pgLimit, pgStart, pgPage, fetched_count, pgYielded>>

\* client.request raises: the error leaves the generator
PageRequestFails ==
    /\ pgPc = "request"
    /\ pgRequests' = Append(pgRequests, pgPage)
    /\ pgPc' = "raised"
    /\ UNCHANGED <<pgTotal, pgSize, pgLimit, pgStart, pgPage, pgResp, pgIdx,
                   fetched_count, pgYielded>>

\* for asset in assets: yield asset
PageYield ==
    /\ pgPc = "iterate"
    /\ pgIdx <= Len(pgResp.items)
    /\ pgYielded' = Append(pgYielded, pgResp.items[pgIdx])
    /\ pgPc' = "yielded"
    /\ UNCHANGED <<pgTotal, pgSize, pgLimit, pgStart, pgPage, pgResp, pgIdx,
                   fetched_count, pgRequests>>

\* the consumer asks for the next item: fetched_count += 1; limit check
PageResume ==
    /\ pgPc = "yielded"
    /\ fetched_count' = fetched_count + 1
    /\ IF LimitReached(pgLimit, fetched_count + 1)
          THEN pgPc' = "done" /\ pgIdx' = pgIdx
          ELSE pgPc' = "iterate" /\ pgIdx' = pgIdx + 1
    /\ UNCHANGED <<pgTotal, pgSize, pgLimit, pgStart, pgPage, pgResp,
                   pgYielded, pgRequests>>

\* the page index left as it is after the for loop
PageCheckSamePage ==
    /\ pgPc = "iterate"
    /\ pgIdx > Len(pgResp.items)
    /\ IF PageExhausted(pgResp.items, fetched_count, pgResp.total)
          THEN pgPc' = "done" /\ pgPage' = pgPage
          ELSE pgPc' = "request" /\ pgPage' = pgPage
    /\ UNCHANGED <<pgTotal, pgSize, pgLimit, pgStart, pgResp, pgIdx,
                   fetched_count, pgYielded, pgRequests>>

\* after the for loop: break, or params["page"] += 1
PageCheck ==
    /\ pgPc = "iterate"
    /\ pgIdx > Len(pgResp.items)
    /\ IF PageExhausted(pgResp.items, fetched_count, pgResp.total)
          THEN pgPc' = "done" /\ pgPage' = pgPage
          ELSE pgPc' = "request" /\ pgPage' = pgPage + 1
    /\ UNCHANGED <<pgTotal, pgSize, pgLimit, pgStart, pgResp, pgIdx,
                   fetched_count, pgYielded, pgRequests>>

\* the generator variables while no generator runs
PageUnused ==
    /\ pgTotal = 0
    /\ pgSize = 1
    /\ pgLimit = NoLimit
    /\ pgStart = 0
    /\ PageIdle
    /\ pgPc = "done"

\* ------------------------------------------------------------------------
\* FUGAClient.request: what the call makes of the server's response
\* ------------------------------------------------------------------------
\* a response: status 0 stands for a transport failure (requests raises a
\* RequestException before any response exists)
Resp(status, body, ctype, payload) ==
    [status |-> status, body |-> body, ctype |-> ctype, payload |-> payload]

NetError == Resp(0, "none", "none", "none")

\* response.ok
ResponseOk(r) == r.status >= 200 /\ r.status < 400

Raise(class, msg) == [out |-> "raise", kind |-> class, val |-> msg]
Return(kind, val) == [out |-> "return", kind |-> kind, val |-> val]
NoResult == [out |-> "none", kind |-> "none", val |-> "none"]

\* `not response.ok`: error_data.get("error") of a JSON body that is not an
\* object is an AttributeError, which no handler of request() catches; the
\* HTTPError of line 158 is raised inside the try block and is a
\* RequestException: the handler of line 183 turns it into a plain Exception
ErrorOutcome(r) ==
    IF r.body = "json_list" THEN Raise("AttributeError", "no attribute 'get'")
    ELSE Raise("Exception", "Request failed")

\* `response.status_code in [204, 200] and not response.content.strip()`
EmptySuccess(r) == r.status \in {204, 200} /\ r.body = "empty"

\* the plain-text branch taken for every method
PlainTextAnyMethod(method, r) == r.status = 200

\* `method == "DELETE" and response.status_code == 200`
PlainTextDelete(method, r) == method = "DELETE" /\ r.status = 200

\* `"audio/mpeg" in response.headers.get("Content-Type", "")`
IsAudio(r) == r.ctype = "audio"

\* response.json() does not raise json.JSONDecodeError
ParsesAsJson(r) == r.body \in {"json", "json_list"}

Request(method, r) ==
    IF r.status = 0 THEN Raise("Exception", "Request failed")
    ELSE IF ~ResponseOk(r) THEN ErrorOutcome(r)
    ELSE IF EmptySuccess(r) THEN Return("str", "Success with no content")
    ELSE IF PlainTextDelete(method, r) THEN Return("str", r.payload)
    ELSE IF IsAudio(r) THEN Return("bytes", r.payload)
    ELSE IF ParsesAsJson(r) THEN Return("json", r.payload)
    ELSE Raise("Exception", "Unexpected response format")

Methods == {"GET", "POST", "PUT", "DELETE"}
Statuses == {200, 201, 204, 400, 404, 500}
Bodies == {"empty", "json", "json_list", "text"}
ContentTypes == {"json", "audio", "text"}

\* what the server can answer, and the transport failing
Responses ==
    {Resp(st, b, ct, IF b = "empty" THEN "" ELSE "content") :
        st \in Statuses, b \in Bodies, ct \in ContentTypes} \cup {NetError}

\* the request variables while no request is made
RequestUnused ==
    /\ reqMethod = "GET"
    /\ reqResp = NetError
    /\ reqResult = NoResult
    /\ reqPc = "done"

\* client.request(method, endpoint, ...)
RequestCall ==
    /\ reqPc = "call"
    /\ reqResult' = Request(reqMethod, reqResp)
    /\ reqPc' = "done"
    /\ UNCHANGED <<reqMethod, reqResp>>

\* ------------------------------------------------------------------------
\* FUGAClient.upload_file
\* ------------------------------------------------------------------------
Bytes == {0, 1}
SessionIds == {"s1", "s2"}
FileNames == {"a.wav"}

\* all byte strings of at most n bytes
BytesUpTo(n) == UNION {[1..k -> Bytes] : k \in 0..n}

\* the prefix test never matching
IsGcsUrlNever(src) == FALSE

\* file_path.startswith("https://storage.googleapis.com/")
IsGcsUrl(src) == src.kind = "gcs"

Absent == [exists |-> FALSE, bytes |-> <<>>]
File(b) == [exists |-> TRUE, bytes |-> b]

\* a chunk count of one more than the whole chunks
CeilDivPlusOne(a, b) == a \div b + 1

\* a chunk count that drops the partial last chunk
CeilDivFloor(a, b) == a \div b

\* math.ceil(total_file_size / chunk_size)
CeilDiv(a, b) == (a + b - 1) \div b

\* file_object.read(chunk_size) at position pos
ReadAt(bytes, pos, n) == SubSeq(bytes, pos + 1, Min(pos + n, Len(bytes)))

\* an accumulator that keeps the last chunk only
HashUpdateLast(h, data) == data

\* an accumulator that puts the new bytes in front of the message
HashUpdatePrepend(h, data) == data \o h

\* file_hash.update(chunk): the accumulator holds the message fed so far
HashUpdate(h, data) == h \o data

\* file_hash.hexdigest(): the digest of the accumulated message, a 16-bit
\* stand-in for MD5 that depends on every byte and on the bytes' order
RECURSIVE hexdigest(_)
hexdigest(msg) ==
    IF Len(msg) = 0 THEN 1
    ELSE (hexdigest(SubSeq(msg, 1, Len(msg) - 1)) * 3 + msg[Len(msg)] + 1) % 65536

\* the end of file taken for any chunk shorter than chunk_size
EndOfFileOnShortRead(data) == Len(data) < chunk_size

\* `if not data: break`
EndOfFile(data) == Len(data) = 0

\* a chunk status that is never looked at
ChunkFailedIgnored(r) == FALSE

\* `response.status_code != 200` (a transport failure raises in post_files)
ChunkFailed(r) == r.status # 200

\* the answers the server can give to the three upload requests
StartResponses ==
    {Resp(200, "json", "json", sid) : sid \in SessionIds}
        \cup {Resp(500, "json", "json", "error"), Resp(200, "empty", "text", ""), NetError}

ChunkResponses == {Resp(200, "json", "json", "ok"), Resp(500, "text", "text", "error"), NetError}

FinishResponses ==
    {Resp(200, "json", "json", "finalized"), Resp(500, "json", "json", "error"),
     Resp(204, "empty", "text", ""), NetError}

UploadIdle ==
    /\ upload_id = "none"
    /\ total_file_size = 0
    /\ total_chunks = 0
    /\ file_hash = <<>>
    /\ filePos = 0
    /\ part_index = 0
    /\ chunk = <<>>
    /\ upLog = <<>>
    /\ upResult = NoResult

\* the upload variables while no upload runs
UploadUnused ==
    /\ upSource = [kind |-> "local", name |-> "a.wav", content |-> <<>>]
    /\ file_path = "arg"
    /\ disk = [arg |-> Absent, tmp |-> Absent]
    /\ chunk_size = 1
    /\ UploadIdle
    /\ upPc = "done"

\* the locals of the running upload_file call and the files it works on
UploadLocals ==
    [upSource |-> upSource, file_path |-> file_path, arg |-> disk.arg,
     tmp |-> disk.tmp, chunk_size |-> chunk_size, upload_id |-> upload_id,
     total_file_size |-> total_file_size, total_chunks |-> total_chunks,
     file_hash |-> file_hash, filePos |-> filePos, part_index |-> part_index,
     chunk |-> chunk, upLog |-> upLog, upResult |-> upResult, upPc |-> upPc]

\* no second upload_file call
NoCall ==
    [upSource |-> [kind |-> "local", name |-> "a.wav", content |-> <<>>],
     file_path |-> "arg", arg |-> Absent, tmp |-> Absent, chunk_size |-> 1,
     upload_id |-> "none", total_file_size |-> 0, total_chunks |-> 0,
     file_hash |-> <<>>, filePos |-> 0, part_index |-> 0, chunk |-> <<>>,
     upLog |-> <<>>, upResult |-> NoResult, upPc |-> "done"]

\* the locals of the running generator
PageLocals ==
    [pgSize |-> pgSize, pgLimit |-> pgLimit, pgStart |-> pgStart,
     pgPage |-> pgPage, pgResp |-> pgResp, pgIdx |-> pgIdx,
     fetched_count |-> fetched_count, pgYielded |-> pgYielded,
     pgRequests |-> pgRequests, pgPc |-> pgPc]

\* no second generator
NoGenerator ==
    [pgSize |-> 1, pgLimit |-> NoLimit, pgStart |-> 0, pgPage |-> 0,
     pgResp |-> [items |-> <<>>, total |-> 0], pgIdx |-> 0,
     fetched_count |-> 0, pgYielded |-> <<>>, pgRequests |-> <<>>,
     pgPc |-> "done"]

\* the caller is upload_file itself
EntryUnused ==
    /\ upEntry = "upload_file"
    /\ owner_id = TRUE

PairUnused ==
    /\ upOther = NoCall
    /\ pgOther = NoGenerator

UploadRaise(class, msg) ==
    /\ upResult' = Raise(class, msg)
    /\ upPc' = "done"

\* a generator object right after the call that made it: no code of the
\* generator function has run
GeneratorOf(size, limit, start) ==
    [NoGenerator EXCEPT !.pgSize = size, !.pgLimit = limit, !.pgStart = start,
                        !.pgPage = start, !.pgPc = "request"]

\* the running generator stands at a yield, has not been started or has ended
PageSuspended == pgPc \in {"yielded", "done", "raised"} \/ pgRequests = <<>>

\* a switch that leaves the page index where it is: one cursor for both
PageSwitchSharedCursor ==
    /\ PageSuspended
    /\ pgOther.pgPc \notin {"done", "raised"}
    /\ pgOther' = PageLocals
    /\ pgSize' = pgOther.pgSize
    /\ pgLimit' = pgOther.pgLimit
    /\ pgStart' = pgOther.pgStart
    /\ pgPage' = pgPage
    /\ pgResp' = pgOther.pgResp
    /\ pgIdx' = pgOther.pgIdx
    /\ fetched_count' = pgOther.fetched_count
    /\ pgYielded' = pgOther.pgYielded
    /\ pgRequests' = pgOther.pgRequests
    /\ pgPc' = pgOther.pgPc
    /\ UNCHANGED <<pgTotal, upOther>>

\* the consumer turns from one generator to the other: `params`, `page` and
\* `fetched_count` are locals of each call of the generator function
PageSwitch ==
    /\ PageSuspended
    /\ pgOther.pgPc \notin {"done", "raised"}
    /\ pgOther' = PageLocals
    /\ pgSize' = pgOther.pgSize
    /\ pgLimit' = pgOther.pgLimit
    /\ pgStart' = pgOther.pgStart
    /\ pgPage' = pgOther.pgPage
    /\ pgResp' = pgOther.pgResp
    /\ pgIdx' = pgOther.pgIdx
    /\ fetched_count' = pgOther.fetched_count
    /\ pgYielded' = pgOther.pgYielded
    /\ pgRequests' = pgOther.pgRequests
    /\ pgPc' = pgOther.pgPc
    /\ UNCHANGED <<pgTotal, upOther>>

\* the base names of the files of two calls
PairNames == {"a.wav", "b.wav"}

\* f"/tmp/{os.path.basename(blob_name)}" is one path for two storage URLs
\* with the same base name
SameScratch(a, b) == a.name = b.name

\* a call of upload_file that has not taken its first step
CallOf(src, size) ==
    [NoCall EXCEPT !.upSource = src,
                   !.arg = IF src.kind = "local" THEN File(src.content) ELSE Absent,
                   !.chunk_size = size,
                   !.upPc = "resolve"]

\* the scheduler suspends the running upload_file call and resumes the other
\* one: locals and the file of the path argument belong to their call, the
\* scratch file is one file when both calls name the same scratch path
UploadSwitch ==
    /\ upOther.upPc # "done"
    /\ upOther' = [UploadLocals EXCEPT
                      !.tmp = IF SameScratch(upSource, upOther.upSource)
                                 THEN Absent ELSE disk.tmp]
    /\ disk' = [arg |-> upOther.arg,
                tmp |-> IF SameScratch(upSource, upOther.upSource)
                           THEN disk.tmp ELSE upOther.tmp]
    /\ upSource' = upOther.upSource
    /\ file_path' = upOther.file_path
    /\ chunk_size' = upOther.chunk_size
    /\ upload_id' = upOther.upload_id
    /\ total_file_size' = upOther.total_file_size
    /\ total_chunks' = upOther.total_chunks
    /\ file_hash' = upOther.file_hash
    /\ filePos' = upOther.filePos
    /\ part_index' = upOther.part_index
    /\ chunk' = upOther.chunk
    /\ upLog' = upOther.upLog
    /\ upResult' = upOther.upResult
    /\ upPc' = upOther.upPc
    /\ pgOther' = pgOther

\* the methods that hand a file to upload_file
Entries == {"upload_audio", "upload_video", "upload_video_preview_image",
            "upload_cover_image"}

\* the call passes the keyword chunk_size (16 * 1024 * 1024)
PassesChunkSize(entry) == entry = "upload_video"

\* upload_file(self, file_path, data) has no parameter chunk_size
TakesChunkSize == FALSE

\* upload_audio / upload_video / upload_video_preview_image /
\* upload_cover_image: the id test, the data of the start request, the call
\* of upload_file
UploadEnter ==
    /\ upPc = "enter"
    /\ IF ~owner_id
          THEN UploadRaise("ValueError", "id is required")
       ELSE IF PassesChunkSize(upEntry) /\ ~TakesChunkSize
          THEN UploadRaise("TypeError", "unexpected keyword argument 'chunk_size'")
       ELSE /\ upPc' = "resolve"
            /\ upResult' = upResult
    /\ UNCHANGED <<upSource, file_path, disk, chunk_size, upload_id, total_file_size,
                   total_chunks, file_hash, filePos, part_index, chunk, upLog>>

\* Step 1, a local path: nothing to resolve
UploadResolveLocal ==
    /\ upPc = "resolve"
    /\ ~IsGcsUrl(upSource)
    /\ upPc' = "start"
    /\ UNCHANGED <<upSource, file_path, disk, chunk_size, upload_id, total_file_size,
                   total_chunks, file_hash, filePos, part_index, chunk, upLog, upResult>>

\* Step 1, a storage URL: _download_file_from_gcs writes /tmp/<basename>
UploadDownload ==
    /\ upPc = "resolve"
    /\ IsGcsUrl(upSource)
    /\ \E ok \in BOOLEAN :
        /\ upLog' = Append(upLog, [op |-> "download", ok |-> ok])
        /\ IF ok
              THEN /\ disk' = [disk EXCEPT !.tmp = File(upSource.content)]
                   /\ file_path' = "tmp"
                   /\ upPc' = "start"
                   /\ upResult' = upResult
              ELSE /\ UploadRaise("Exception", "download failed")
                   /\ UNCHANGED <<disk, file_path>>
    /\ UNCHANGED <<upSource, chunk_size, upload_id, total_file_size, total_chunks,
                   file_hash, filePos, part_index, chunk>>

\* Step 2: POST /upload/start, upload_session["id"], os.stat, hashlib.md5(), open
UploadStart ==
    /\ upPc = "start"
    /\ \E r \in StartResponses :
        LET res == Request("POST", r) IN
        /\ upLog' = Append(upLog, [op |-> "start", resp |-> r,
                                    ok |-> res.out = "return" /\ res.kind = "json"])
        /\ IF res.out = "raise"
              THEN /\ UploadRaise(res.kind, res.val)
                   /\ UNCHANGED <<upload_id, total_file_size, total_chunks>>
           ELSE IF res.kind # "json"
              THEN /\ UploadRaise("TypeError", "string indices must be integers")
                   /\ UNCHANGED <<upload_id, total_file_size, total_chunks>>
           ELSE IF ~disk[file_path].exists
              THEN /\ UploadRaise("FileNotFoundError", "stat")
                   /\ upload_id' = res.val
                   /\ UNCHANGED <<total_file_size, total_chunks>>
           ELSE /\ upload_id' = res.val
                /\ total_file_size' = Len(disk[file_path].bytes)
                /\ total_chunks' = CeilDiv(Len(disk[file_path].bytes), chunk_size)
                /\ upPc' = "read"
                /\ upResult' = upResult
    /\ file_hash' = <<>>
    /\ filePos' = 0
    /\ part_index' = 0
    /\ UNCHANGED <<upSource, file_path, disk, chunk_size, chunk>>

\* _read_in_chunks yields the next chunk; file_hash.update(chunk)
UploadReadChunk ==
    /\ upPc = "read"
    /\ LET data == ReadAt(disk[file_path].bytes, filePos, chunk_size) IN
        /\ upLog' = Append(upLog, [op |-> "read", path |-> file_path, len |-> Len(data)])
        /\ filePos' = filePos + Len(data)
        /\ IF EndOfFile(data)
              THEN /\ upPc' = "finish"
                   /\ UNCHANGED <<chunk, file_hash>>
              ELSE /\ chunk' = data
                   /\ file_hash' = HashUpdate(file_hash, data)
                   /\ upPc' = "send"
    /\ UNCHANGED <<upSource, file_path, disk, chunk_size, upload_id, total_file_size,
                   total_chunks, part_index, upResult>>

\* post_files("/upload", ...) for the current chunk; a status other than 200 raises
UploadSendChunk ==
    /\ upPc = "send"
    /\ \E r \in ChunkResponses :
        LET offset == part_index * chunk_size IN
        /\ upLog' = Append(upLog,
              [op |-> "chunk", uuid |-> upload_id, filename |-> upSource.name,
               totalfilesize |-> total_file_size, partindex |-> part_index,
               partbyteoffset |-> offset, totalparts |-> total_chunks,
               file |-> chunk,
               range |-> <<offset, offset + Len(chunk) - 1, total_file_size>>,
               ok |-> r.status = 200])
        /\ IF ChunkFailed(r)
              THEN /\ UploadRaise("Exception", "Chunk upload failed")
                   /\ part_index' = part_index
              ELSE /\ part_index' = part_index + 1
                   /\ upPc' = "read"
                   /\ upResult' = upResult
    /\ UNCHANGED <<upSource, file_path, disk, chunk_size, upload_id, total_file_size,
                   total_chunks, file_hash, filePos, chunk>>

\* POST /upload/finish with the hex digest; its outcome is the call's outcome
UploadFinish ==
    /\ upPc = "finish"
    /\ \E r \in FinishResponses :
        /\ upLog' = Append(upLog,
              [op |-> "finish", uuid |-> upload_id, filename |-> upSource.name,
               md5sum |-> hexdigest(file_hash), resp |-> r])
        /\ upResult' = Request("POST", r)
        /\ upPc' = "done"
    /\ UNCHANGED <<upSource, file_path, disk, chunk_size, upload_id, total_file_size,
                   total_chunks, file_hash, filePos, part_index, chunk>>

\* the caller uploads the same source again, in a second session; chunk_size
\* is a constant of the build, and the second session may be run by a build
\* with another constant
UploadAgain ==
    /\ upPc = "done"
    /\ \A i \in 1..Len(upLog) : upLog[i].op # "again"
    /\ upLog' = Append(upLog, [op |-> "again"])
    /\ chunk_size' \in 1..MaxChunkSize
    /\ file_path' = "arg"
    /\ upload_id' = "none"
    /\ total_file_size' = 0
    /\ total_chunks' = 0
    /\ file_hash' = <<>>
    /\ filePos' = 0
    /\ part_index' = 0
    /\ chunk' = <<>>
    /\ upResult' = NoResult
    /\ upPc' = "resolve"
    /\ UNCHANGED <<upSource, disk>>

\* ------------------------------------------------------------------------
\* The synchronisation operations: update_or_create_identifiers (artist),
\* update_or_create_contributors / _instrument_performers / _publishers
\* (asset) and update_tracks (product)
\* ------------------------------------------------------------------------
Rels == {"identifiers", "contributors", "instrument_performers", "publishers", "tracks"}
CreditRels == {"contributors", "instrument_performers", "publishers"}

\* ids as they travel: JSON numbers of the remote, strings of the caller
IntId(n) == [t |-> "int", n |-> n]
StrId(n) == [t |-> "str", n |-> n]

\* an id compared as it is, without str()
StrMissing(v) == v

\* str(v) of an id
Str(v) == [t |-> "str", n |-> v.n]

\* str(d) of a nested object d = {"id": v, ...}: the text of the whole dict
StrOfDict(v) == [t |-> "repr", n |-> v.n]

\* `x or None`: the empty string and None are the same
OrNone(x) == IF x = "" THEN "None" ELSE x

RefIds == {1, 2}
Discriminants(r) ==
    CASE r = "contributors" -> {"Composer", "Lyricist"}
      [] r = "instrument_performers" -> {"GUITAR", "PIANO"}
      [] OTHER -> {"-"}
IdentifierValues(r) == IF r = "identifiers" THEN {"None", "", "x"} ELSE {"-"}
Flags(r) == IF r = "identifiers" THEN BOOLEAN ELSE {FALSE}
TrackSequences(r) == IF r = "tracks" THEN {1, 2} ELSE {0}
DesiredIdTypes(r) == IF r = "tracks" THEN {"int", "str"} ELSE {"str"}

\* a remote item, or a desired item (id 0)
Item(id, ref, disc, identifier, newFlag, sequence) ==
    [id |-> id, ref |-> ref, disc |-> disc, identifier |-> identifier,
     newFlag |-> newFlag, sequence |-> sequence]

SeqsUpTo(S, n) == UNION {[1..k -> S] : k \in 0..n}

DistinctRefs(s) == \A i, j \in 1..Len(s) : i # j => s[i].ref.n # s[j].ref.n

\* the remote holds one identifier per issuing organization and one entry
\* per asset of a product; its items carry ids of their own (for a track the
\* asset id)
ExistingShapes(r) ==
    {Item(0, IntId(n), d, v, f, 0) :
        n \in RefIds, d \in Discriminants(r), v \in IdentifierValues(r), f \in Flags(r)}

WithIds(r, s) ==
    [i \in 1..Len(s) |-> [s[i] EXCEPT !.id = IF r = "tracks" THEN s[i].ref.n ELSE i]]

ExistingLists(r) ==
    {WithIds(r, s) : s \in {x \in SeqsUpTo(ExistingShapes(r), MaxExisting) :
                                r \in {"identifiers", "tracks"} => DistinctRefs(x)}}

DesiredShapes(r) ==
    {Item(0, [t |-> ty, n |-> n], d, v, f, q) :
        ty \in DesiredIdTypes(r), n \in RefIds, d \in Discriminants(r),
        v \in IdentifierValues(r), f \in Flags(r), q \in TrackSequences(r)}

DesiredLists(r) == SeqsUpTo(DesiredShapes(r), MaxDesired)

\* the key of an existing item in the lookup dictionary
ExistingKey(r, e) ==
    CASE r = "identifiers" -> <<Str(e.ref)>>
      [] r = "contributors" -> <<Str(e.ref), e.disc>>
      [] r = "instrument_performers" -> <<Str(e.ref), e.disc>>
      [] r = "publishers" -> <<Str(e.ref)>>
      [] r = "tracks" -> <<e.ref>>

\* the key of a desired item
DesiredKey(r, d) ==
    CASE r = "identifiers" -> <<Str(d.ref)>>
      [] r = "contributors" -> <<Str(d.ref), d.disc>>
      [] r = "instrument_performers" -> <<Str(d.ref), d.disc>>
      [] r = "publishers" -> <<Str(d.ref)>>
      [] r = "tracks" -> <<d.ref>>

\* the removal key of publishers taken from the nested id, as in the lookup
RemovalKeyById(r, e) == ExistingKey(r, e)

\* the key of an existing item in the removal loop; for publishers it is
\* str(publisher["publishing_house"]), the text of the nested object
RemovalKey(r, e) ==
    IF r = "publishers" THEN <<StrOfDict(e.ref)>> ELSE ExistingKey(r, e)

\* keys of a list
ExistingKeys(r, ex) == {ExistingKey(r, ex[i]) : i \in 1..Len(ex)}
DesiredKeys(r, de) == {DesiredKey(r, de[i]) : i \in 1..Len(de)}

\* the dict comprehension keeps the last item of each key
Lookup(r, ex, key) ==
    ex[CHOOSE i \in 1..Len(ex) :
        /\ ExistingKey(r, ex[i]) = key
        /\ \A j \in (i + 1)..Len(ex) : ExistingKey(r, ex[j]) # key]

\* ---- the remote's side of the scoped calls
MaxOf(S) == CHOOSE m \in S : \A x \in S : x <= m
FreshId(rem, ex) ==
    1 + MaxOf({0} \cup {rem[i].id : i \in 1..Len(rem)} \cup {ex[i].id : i \in 1..Len(ex)})

ApplyAdd(r, rem, ex, d) ==
    Append(rem, [d EXCEPT !.id = IF r = "tracks" THEN d.ref.n ELSE FreshId(rem, ex),
                          !.ref = IntId(d.ref.n)])

RemoveIndex(s, k) == [i \in 1..(Len(s) - 1) |-> IF i < k THEN s[i] ELSE s[i + 1]]

RECURSIVE ApplyRemove(_, _)
ApplyRemove(rem, id) ==
    IF \E i \in 1..Len(rem) : rem[i].id = id
        THEN ApplyRemove(RemoveIndex(rem, CHOOSE i \in 1..Len(rem) : rem[i].id = id), id)
        ELSE rem

ApplyUpdate(rem, id, d) ==
    [i \in 1..Len(rem) |->
        IF rem[i].id = id
            THEN [rem[i] EXCEPT !.identifier = d.identifier, !.newFlag = d.newFlag]
            ELSE rem[i]]

ApplyReposition(rem, id, q) ==
    [i \in 1..Len(rem) |-> IF rem[i].id = id THEN [rem[i] EXCEPT !.sequence = q] ELSE rem[i]]

Call(op, di, id, ok) == [run |-> run, op |-> op, di |-> di, id |-> id, ok |-> ok]

\* a scoped call may fail while the failure budget lasts
Outcomes == IF failures < MaxFailures THEN BOOLEAN ELSE {TRUE}
Failed(ok) == IF ok THEN failures ELSE failures + 1

SyncIdle ==
    /\ existing = <<>>
    /\ syIdx = 0
    /\ calls = <<>>
    /\ identifiers_to_update_in_cm = <<>>
    /\ syResult = NoResult
    /\ run = 1
    /\ failures = 0

\* the synchronisation variables while no synchronisation runs
SyncUnused ==
    /\ rel = "publishers"
    /\ parent_id = FALSE
    /\ remote = <<>>
    /\ desired = <<>>
    /\ SyncIdle
    /\ syPc = "done"

\* where the loops of update_or_create_* stand after position i of a phase
NextPos(r, phase, i, ex, de) ==
    IF phase = "desired" /\ i <= Len(de) THEN <<"desired", i>>
    ELSE IF phase = "desired" /\ r # "identifiers" /\ Len(ex) >= 1 THEN <<"remove", 1>>
    ELSE IF phase = "remove" /\ i <= Len(ex) THEN <<"remove", i>>
    ELSE <<"return", 0>>

SyncReturn(kind, val) ==
    /\ syResult' = Return(kind, val)
    /\ syPc' = "done"

SyncRaise(class, msg) ==
    /\ syResult' = Raise(class, msg)
    /\ syPc' = "done"

\* a failed fetch taken for an empty existing state
SyncFetchAssumeEmpty ==
    /\ syPc = "fetch"
    /\ rel # "tracks"
    /\ IF ~parent_id
          THEN /\ SyncReturn("None", <<>>)
               /\ UNCHANGED <<existing, syIdx, calls>>
          ELSE \E ok \in BOOLEAN :
               /\ calls' = Append(calls, Call("fetch", 0, 0, ok))
               /\ existing' = IF ok THEN remote ELSE <<>>
               /\ syPc' = NextPos(rel, "desired", 1, existing', desired)[1]
               /\ syIdx' = NextPos(rel, "desired", 1, existing', desired)[2]
               /\ syResult' = syResult
    /\ UNCHANGED <<rel, parent_id, remote, desired, identifiers_to_update_in_cm,
                   run, failures>>

\* try: existing = self.fetch_*() except Exception: return
\* (an unset parent id raises ValueError inside the try block)
SyncFetch ==
    /\ syPc = "fetch"
    /\ rel # "tracks"
    /\ IF ~parent_id
          THEN /\ SyncReturn("None", <<>>)
               /\ UNCHANGED <<existing, syIdx, calls>>
          ELSE \E ok \in BOOLEAN :
               /\ calls' = Append(calls, Call("fetch", 0, 0, ok))
               /\ IF ok
                     THEN /\ existing' = remote
                          /\ syPc' = NextPos(rel, "desired", 1, remote, desired)[1]
                          /\ syIdx' = NextPos(rel, "desired", 1, remote, desired)[2]
                          /\ syResult' = syResult
                     ELSE /\ SyncReturn("None", <<>>)
                          /\ UNCHANGED <<existing, syIdx>>
    /\ UNCHANGED <<rel, parent_id, remote, desired, identifiers_to_update_in_cm,
                   run, failures>>

\* Step 1 of contributors / instrument performers / publishers:
\* a desired item whose key is not in the lookup is added
CreditStep ==
    /\ syPc = "desired"
    /\ rel \in CreditRels
    /\ LET d == desired[syIdx] IN
        IF DesiredKey(rel, d) \in ExistingKeys(rel, existing)
            THEN UNCHANGED <<calls, remote, failures>>
            ELSE \E ok \in Outcomes :
                /\ calls' = Append(calls, Call("add", syIdx, 0, ok))
                /\ remote' = IF ok THEN ApplyAdd(rel, remote, existing, d) ELSE remote
                /\ failures' = Failed(ok)
    /\ syPc' = NextPos(rel, "desired", syIdx + 1, existing, desired)[1]
    /\ syIdx' = NextPos(rel, "desired", syIdx + 1, existing, desired)[2]
    /\ UNCHANGED <<rel, parent_id, existing, desired, identifiers_to_update_in_cm,
                   syResult, run>>

\* Step 2 of contributors / instrument performers / publishers:
\* an existing item whose key is not among the provided keys is removed
CreditRemove ==
    /\ syPc = "remove"
    /\ rel \in CreditRels
    /\ LET e == existing[syIdx] IN
        IF RemovalKey(rel, e) \in DesiredKeys(rel, desired)
            THEN UNCHANGED <<calls, remote, failures>>
            ELSE \E ok \in Outcomes :
                /\ calls' = Append(calls, Call("remove", 0, e.id, ok))
                /\ remote' = IF ok THEN ApplyRemove(remote, e.id) ELSE remote
                /\ failures' = Failed(ok)
    /\ syPc' = NextPos(rel, "remove", syIdx + 1, existing, desired)[1]
    /\ syIdx' = NextPos(rel, "remove", syIdx + 1, existing, desired)[2]
    /\ UNCHANGED <<rel, parent_id, existing, desired, identifiers_to_update_in_cm,
                   syResult, run>>

\* the report-back test with the two flags exchanged
ReportBackSwapped(d, e) == d.newFlag = FALSE /\ e.newFlag = TRUE

\* the report-back test of update_or_create_identifiers
ReportBack(d, e) == d.newFlag = TRUE /\ e.newFlag = FALSE

\* the update test that also compares the two flags
IdentifierOrFlagDiffers(d, e) ==
    OrNone(d.identifier) # OrNone(e.identifier) \/ d.newFlag # e.newFlag

\* the update test on the values as they are
IdentifierDiffersRaw(d, e) == d.identifier # e.identifier

\* the update test of update_or_create_identifiers
IdentifierDiffers(d, e) == OrNone(d.identifier) # OrNone(e.identifier)

\* Step 1 of update_or_create_identifiers: report back, update, leave or create
IdentifierStep ==
    /\ syPc = "desired"
    /\ rel = "identifiers"
    /\ LET d == desired[syIdx]
           key == DesiredKey(rel, d)
       IN
        IF key \in ExistingKeys(rel, existing)
            THEN LET existing_identifier == Lookup(rel, existing, key) IN
                 IF ReportBack(d, existing_identifier)
                    THEN /\ identifiers_to_update_in_cm' =
                                Append(identifiers_to_update_in_cm, existing_identifier)
                         /\ UNCHANGED <<calls, remote, failures>>
                 ELSE IF IdentifierDiffers(d, existing_identifier)
                    THEN /\ \E ok \in Outcomes :
                            /\ calls' = Append(calls,
                                    Call("update", syIdx, existing_identifier.id, ok))
                            /\ remote' = IF ok
                                  THEN ApplyUpdate(remote, existing_identifier.id, d)
                                  ELSE remote
                            /\ failures' = Failed(ok)
                         /\ UNCHANGED identifiers_to_update_in_cm
                 ELSE UNCHANGED <<calls, remote, failures, identifiers_to_update_in_cm>>
            ELSE /\ \E ok \in Outcomes :
                    /\ calls' = Append(calls, Call("add", syIdx, 0, ok))
                    /\ remote' = IF ok THEN ApplyAdd(rel, remote, existing, d) ELSE remote
                    /\ failures' = Failed(ok)
                 /\ UNCHANGED identifiers_to_update_in_cm
    /\ syPc' = NextPos(rel, "desired", syIdx + 1, existing, desired)[1]
    /\ syIdx' = NextPos(rel, "desired", syIdx + 1, existing, desired)[2]
    /\ UNCHANGED <<rel, parent_id, existing, desired, syResult, run>>

\* the end of the call: {"success": True, "identifiers_to_update_in_cm": [...]}
\* for identifiers, None for the others
SyncFinish ==
    /\ syPc = "return"
    /\ IF rel = "identifiers"
          THEN SyncReturn("dict", identifiers_to_update_in_cm)
          ELSE SyncReturn("None", <<>>)
    /\ UNCHANGED <<rel, parent_id, remote, existing, desired, syIdx, calls,
                   identifiers_to_update_in_cm, run, failures>>

\* ---- update_tracks
Indices(s) == [i \in 1..Len(s) |-> i]

\* current_ids / new_ids
CurrentIds(ex) == {ex[i].ref : i \in 1..Len(ex)}
NewIds(de) == {de[i].ref : i \in 1..Len(de)}

\* tracks_to_add, as positions in new_tracks
TracksToAdd(ex, de) ==
    LET absent(i) == de[i].ref \notin CurrentIds(ex) IN SelectSeq(Indices(de), absent)

\* tracks_to_remove, as positions in current_assets
TracksToRemove(ex, de) ==
    LET gone(i) == ex[i].ref \notin NewIds(de) IN SelectSeq(Indices(ex), gone)

\* tracks_to_reorder, as positions in new_tracks
TracksToReorder(ex, de) ==
    LET present(i) == de[i].ref \in CurrentIds(ex) IN SelectSeq(Indices(de), present)

\* where the three loops of update_tracks stand after position i of a phase
TrackPos(phase, i, ex, de) ==
    IF phase = "add" /\ i <= Len(TracksToAdd(ex, de)) THEN <<"add", i>>
    ELSE IF phase = "add" /\ Len(TracksToRemove(ex, de)) >= 1 THEN <<"remove", 1>>
    ELSE IF phase = "remove" /\ i <= Len(TracksToRemove(ex, de)) THEN <<"remove", i>>
    ELSE IF phase \in {"add", "remove"} /\ Len(TracksToReorder(ex, de)) >= 1
        THEN <<"reorder", 1>>
    ELSE IF phase = "reorder" /\ i <= Len(TracksToReorder(ex, de)) THEN <<"reorder", i>>
    ELSE <<"return", 0>>

\* the product id test and current_assets = self.fetch_assets()["asset"],
\* outside any try block
TracksFetch ==
    /\ syPc = "fetch"
    /\ rel = "tracks"
    /\ IF ~parent_id
          THEN /\ SyncRaise("ValueError", "Product ID is required to update tracks.")
               /\ UNCHANGED <<existing, syIdx, calls>>
          ELSE \E ok \in BOOLEAN :
               /\ calls' = Append(calls, Call("fetch", 0, 0, ok))
               /\ IF ok
                     THEN /\ existing' = remote
                          /\ syPc' = TrackPos("add", 1, remote, desired)[1]
                          /\ syIdx' = TrackPos("add", 1, remote, desired)[2]
                          /\ syResult' = syResult
                     ELSE /\ SyncRaise("Exception", "Request failed")
                          /\ UNCHANGED <<existing, syIdx>>
    /\ UNCHANGED <<rel, parent_id, remote, desired, identifiers_to_update_in_cm,
                   run, failures>>

\* for track in tracks_to_add: self.add_asset(...)
TracksAdd ==
    /\ syPc = "add"
    /\ rel = "tracks"
    /\ LET di == TracksToAdd(existing, desired)[syIdx] IN
        \E ok \in Outcomes :
            /\ calls' = Append(calls, Call("add", di, 0, ok))
            /\ failures' = Failed(ok)
            /\ IF ok
                  THEN /\ remote' = ApplyAdd(rel, remote, existing, desired[di])
                       /\ syPc' = TrackPos("add", syIdx + 1, existing, desired)[1]
                       /\ syIdx' = TrackPos("add", syIdx + 1, existing, desired)[2]
                       /\ syResult' = syResult
                  ELSE /\ SyncRaise("Exception", "Request failed")
                       /\ UNCHANGED <<remote, syIdx>>
    /\ UNCHANGED <<rel, parent_id, existing, desired, identifiers_to_update_in_cm, run>>

\* for track_id in tracks_to_remove: self.remove_asset(track_id)
TracksRemove ==
    /\ syPc = "remove"
    /\ rel = "tracks"
    /\ LET e == existing[TracksToRemove(existing, desired)[syIdx]] IN
        \E ok \in Outcomes :
            /\ calls' = Append(calls, Call("remove", 0, e.id, ok))
            /\ failures' = Failed(ok)
            /\ IF ok
                  THEN /\ remote' = ApplyRemove(remote, e.id)
                       /\ syPc' = TrackPos("remove", syIdx + 1, existing, desired)[1]
                       /\ syIdx' = TrackPos("remove", syIdx + 1, existing, desired)[2]
                       /\ syResult' = syResult
                  ELSE /\ SyncRaise("Exception", "Request failed")
                       /\ UNCHANGED <<remote, syIdx>>
    /\ UNCHANGED <<rel, parent_id, existing, desired, identifiers_to_update_in_cm, run>>

\* for track in tracks_to_reorder: self.update_asset_sequence(id, sequence)
TracksReorder ==
    /\ syPc = "reorder"
    /\ rel = "tracks"
    /\ LET di == TracksToReorder(existing, desired)[syIdx] IN
        \E ok \in Outcomes :
            /\ calls' = Append(calls, Call("reposition", di, desired[di].ref.n, ok))
            /\ failures' = Failed(ok)
            /\ IF ok
                  THEN /\ remote' = ApplyReposition(remote, desired[di].ref.n,
                                                    desired[di].sequence)
                       /\ syPc' = TrackPos("reorder", syIdx + 1, existing, desired)[1]
                       /\ syIdx' = TrackPos("reorder", syIdx + 1, existing, desired)[2]
                       /\ syResult' = syResult
                  ELSE /\ SyncRaise("Exception", "Request failed")
                       /\ UNCHANGED <<remote, syIdx>>
    /\ UNCHANGED <<rel, parent_id, existing, desired, identifiers_to_update_in_cm, run>>

\* the caller invokes the same operation again with the same desired list,
\* after a first run all of whose calls the remote has applied
SyncAgain ==
    /\ syPc = "done"
    /\ run = 1
    /\ parent_id
    /\ syResult.out = "return"
    /\ \A i \in 1..Len(calls) : calls[i].ok
    /\ run' = 2
    /\ syPc' = "fetch"
    /\ existing' = <<>>
    /\ syIdx' = 0
    /\ identifiers_to_update_in_cm' = <<>>
    /\ syResult' = NoResult
    /\ UNCHANGED <<rel, parent_id, remote, desired, calls, failures>>

\* ------------------------------------------------------------------------
\* Specifications
\* ------------------------------------------------------------------------
InitPage ==
    /\ pgTotal \in 0..MaxTotal
    /\ pgSize \in 1..MaxPageSize
    /\ pgLimit \in {NoLimit} \cup 0..MaxLimit
    /\ pgStart \in 0..MaxStartPage
    /\ PageIdle
    /\ pgPc = "request"
    /\ UploadUnused
    /\ SyncUnused
    /\ RequestUnused
    /\ EntryUnused
    /\ PairUnused

NextPage ==
    \/ PageRequest /\ UNCHANGED <<uploadVars, syncVars, requestVars, entryVars, pairVars>>
    \/ PageRequestFails /\ UNCHANGED <<uploadVars, syncVars, requestVars, entryVars, pairVars>>
    \/ PageYield /\ UNCHANGED <<uploadVars, syncVars, requestVars, entryVars, pairVars>>
    \/ PageResume /\ UNCHANGED <<uploadVars, syncVars, requestVars, entryVars, pairVars>>
    \/ PageCheck /\ UNCHANGED <<uploadVars, syncVars, requestVars, entryVars, pairVars>>

SpecPage == InitPage /\ [][NextPage]_vars

\* a consumer that iterates the generator to exhaustion
SpecPageFair == SpecPage /\ WF_vars(NextPage)

\* the generator against an endpoint without a fixed collection
InitPageAny ==
    /\ pgTotal = 0
    /\ pgSize \in 1..MaxPageSize
    /\ pgLimit \in {NoLimit} \cup 0..MaxLimit
    /\ pgStart \in 0..MaxStartPage
    /\ PageIdle
    /\ pgPc = "request"
    /\ UploadUnused
    /\ SyncUnused
    /\ RequestUnused
    /\ EntryUnused
    /\ PairUnused

NextPageAny ==
    \/ PageRequestAny /\ UNCHANGED <<uploadVars, syncVars, requestVars, entryVars, pairVars>>
    \/ PageRequestFails /\ UNCHANGED <<uploadVars, syncVars, requestVars, entryVars, pairVars>>
    \/ PageYield /\ UNCHANGED <<uploadVars, syncVars, requestVars, entryVars, pairVars>>
    \/ PageResume /\ UNCHANGED <<uploadVars, syncVars, requestVars, entryVars, pairVars>>
    \/ PageCheck /\ UNCHANGED <<uploadVars, syncVars, requestVars, entryVars, pairVars>>

SpecPageAny == InitPageAny /\ [][NextPageAny]_vars

\* a consumer that iterates that generator to exhaustion
SpecPageAnyFair == SpecPageAny /\ WF_vars(NextPageAny)

InitRequest ==
    /\ reqMethod \in Methods
    /\ reqResp \in Responses
    /\ reqResult = NoResult
    /\ reqPc = "call"
    /\ PageUnused
    /\ UploadUnused
    /\ SyncUnused
    /\ EntryUnused
    /\ PairUnused

NextRequest ==
    \/ RequestCall /\ UNCHANGED <<pageVars, uploadVars, syncVars, entryVars, pairVars>>

\* one request() call
SpecRequest == InitRequest /\ [][NextRequest]_vars

InitPagePair ==
    /\ pgTotal \in 0..MaxPairTotal
    /\ pgSize \in 1..MaxPairPageSize
    /\ pgLimit \in {NoLimit} \cup 1..MaxPairLimit
    /\ pgStart \in 0..MaxStartPage
    /\ PageIdle
    /\ pgPc = "request"
    /\ pgOther \in {GeneratorOf(size, limit, start) :
                      size \in 1..MaxPairPageSize,
                      limit \in {NoLimit} \cup 1..MaxPairLimit,
                      start \in 0..MaxStartPage}
    /\ upOther = NoCall
    /\ UploadUnused
    /\ SyncUnused
    /\ RequestUnused
    /\ EntryUnused

NextPagePair ==
    \/ PageSwitch /\ UNCHANGED <<uploadVars, syncVars, requestVars, entryVars>>
    \/ NextPage

\* two generators of one endpoint, pulled from in turns by their consumer
SpecPagePair == InitPagePair /\ [][NextPagePair]_vars

InitUpload ==
    /\ upSource \in [kind : {"local", "gcs"}, name : FileNames, content : BytesUpTo(MaxSize)]
    /\ file_path = "arg"
    /\ disk = [arg |-> IF upSource.kind = "local" THEN File(upSource.content) ELSE Absent,
               tmp |-> Absent]
    /\ chunk_size \in 1..MaxChunkSize
    /\ UploadIdle
    /\ upPc = "resolve"
    /\ PageUnused
    /\ SyncUnused
    /\ RequestUnused
    /\ EntryUnused
    /\ PairUnused

NextUpload ==
    \/ UploadResolveLocal /\ UNCHANGED <<pageVars, syncVars, requestVars, entryVars, pairVars>>
    \/ UploadDownload /\ UNCHANGED <<pageVars, syncVars, requestVars, entryVars, pairVars>>
    \/ UploadStart /\ UNCHANGED <<pageVars, syncVars, requestVars, entryVars, pairVars>>
    \/ UploadReadChunk /\ UNCHANGED <<pageVars, syncVars, requestVars, entryVars, pairVars>>
    \/ UploadSendChunk /\ UNCHANGED <<pageVars, syncVars, requestVars, entryVars, pairVars>>
    \/ UploadFinish /\ UNCHANGED <<pageVars, syncVars, requestVars, entryVars, pairVars>>

SpecUpload == InitUpload /\ [][NextUpload]_vars

NextUploadTwice ==
    \/ NextUpload
    \/ UploadAgain /\ UNCHANGED <<pageVars, syncVars, requestVars, entryVars, pairVars>>

\* two upload sessions of the same source
SpecUploadTwice == InitUpload /\ [][NextUploadTwice]_vars

InitUploadEntry ==
    /\ upSource \in [kind : {"local", "gcs"}, name : FileNames, content : BytesUpTo(MaxSize)]
    /\ file_path = "arg"
    /\ disk = [arg |-> IF upSource.kind = "local" THEN File(upSource.content) ELSE Absent,
               tmp |-> Absent]
    /\ chunk_size \in 1..MaxChunkSize
    /\ UploadIdle
    /\ upPc = "enter"
    /\ upEntry \in Entries
    /\ owner_id \in BOOLEAN
    /\ PageUnused
    /\ SyncUnused
    /\ RequestUnused
    /\ PairUnused

NextUploadEntry ==
    \/ UploadEnter /\ UNCHANGED <<pageVars, syncVars, requestVars, entryVars, pairVars>>
    \/ NextUpload

\* an upload started through one of the asset's or product's upload methods
SpecUploadEntry == InitUploadEntry /\ [][NextUploadEntry]_vars

InitUploadPair ==
    /\ upSource \in [kind : {"local", "gcs"}, name : PairNames,
                      content : BytesUpTo(MaxPairSize)]
    /\ file_path = "arg"
    /\ disk = [arg |-> IF upSource.kind = "local" THEN File(upSource.content) ELSE Absent,
               tmp |-> Absent]
    /\ chunk_size \in 1..MaxChunkSize
    /\ UploadIdle
    /\ upPc = "resolve"
    /\ upOther \in {CallOf(src, chunk_size) :
                      src \in [kind : {"local", "gcs"}, name : PairNames,
                               content : BytesUpTo(MaxPairSize)]}
    /\ pgOther = NoGenerator
    /\ PageUnused
    /\ SyncUnused
    /\ RequestUnused
    /\ EntryUnused

NextUploadPair ==
    \/ UploadSwitch /\ UNCHANGED <<pageVars, syncVars, requestVars, entryVars>>
    \/ NextUpload

\* two upload_file calls on one client, their steps interleaved
SpecUploadPair == InitUploadPair /\ [][NextUploadPair]_vars

InitSync ==
    /\ rel \in Rels
    /\ parent_id \in BOOLEAN
    /\ remote \in IF parent_id THEN ExistingLists(rel) ELSE {<<>>}
    /\ desired \in DesiredLists(rel)
    /\ SyncIdle
    /\ syPc = "fetch"
    /\ PageUnused
    /\ UploadUnused
    /\ RequestUnused
    /\ EntryUnused
    /\ PairUnused

NextSync ==
    \/ SyncFetch /\ UNCHANGED <<pageVars, uploadVars, requestVars, entryVars, pairVars>>
    \/ CreditStep /\ UNCHANGED <<pageVars, uploadVars, requestVars, entryVars, pairVars>>
    \/ CreditRemove /\ UNCHANGED <<pageVars, uploadVars, requestVars, entryVars, pairVars>>
    \/ IdentifierStep /\ UNCHANGED <<pageVars, uploadVars, requestVars, entryVars, pairVars>>
    \/ SyncFinish /\ UNCHANGED <<pageVars, uploadVars, requestVars, entryVars, pairVars>>
    \/ TracksFetch /\ UNCHANGED <<pageVars, uploadVars, requestVars, entryVars, pairVars>>
    \/ TracksAdd /\ UNCHANGED <<pageVars, uploadVars, requestVars, entryVars, pairVars>>
    \/ TracksRemove /\ UNCHANGED <<pageVars, uploadVars, requestVars, entryVars, pairVars>>
    \/ TracksReorder /\ UNCHANGED <<pageVars, uploadVars, requestVars, entryVars, pairVars>>

\* one synchronisation call
SpecSync == InitSync /\ [][NextSync]_vars

NextSyncTwice ==
    \/ NextSync
    \/ SyncAgain /\ UNCHANGED <<pageVars, uploadVars, requestVars, entryVars, pairVars>>

\* a synchronisation call and its repetition with the same desired list
SpecSyncTwice == InitSync /\ [][NextSyncTwice]_vars

\* ------------------------------------------------------------------------
\* Properties of upload_file
\* ------------------------------------------------------------------------
IsChunk(e) == e.op = "chunk"
IsStart(e) == e.op = "start"
IsFinish(e) == e.op = "finish"
IsRead(e) == e.op = "read"
IsDownload(e) == e.op = "download"

ChunksSent == SelectSeq(upLog, IsChunk)
SourceSize == Len(upSource.content)
SourceIsUrl == upSource.kind = "gcs"
\* the number of chunks of the source, ceil(S / C)
NumChunks == (SourceSize + chunk_size - 1) \div chunk_size

\* concatenation of the chunks' bytes
RECURSIVE Concat(_)
Concat(cs) == IF Len(cs) = 0 THEN <<>> ELSE cs[1].file \o Concat(Tail(cs))

\* C2: chunk i (0-based) carries partindex i, partbyteoffset i*C, totalparts
\* ceil(S/C), the bytes [i*C, min((i+1)*C, S)) and the Content-Range
\* bytes i*C-(i*C+len-1)/S; only the last chunk is shorter than C; once all
\* chunks are sent they are ceil(S/C) many and cover exactly [0, S).
C2_ChunkCoverage ==
    /\ Len(ChunksSent) <= NumChunks
    /\ \A i \in 1..Len(ChunksSent) :
        LET c == ChunksSent[i]
            lo == (i - 1) * chunk_size
            hi == Min(i * chunk_size, SourceSize)
        IN  /\ c.partindex = i - 1
            /\ c.totalparts = NumChunks
            /\ c.totalfilesize = SourceSize
            /\ c.partbyteoffset = lo
            /\ c.file = SubSeq(upSource.content, lo + 1, hi)
            /\ Len(c.file) >= 1
            /\ (i < NumChunks => Len(c.file) = chunk_size)
            /\ c.range = <<lo, lo + Len(c.file) - 1, SourceSize>>
    /\ upPc = "finish" =>
        /\ Len(ChunksSent) = NumChunks
        /\ Concat(ChunksSent) = upSource.content

\* witness of C2: three bytes in chunks of two, all chunks sent
C2_Witness ==
    /\ upPc = "finish"
    /\ SourceSize = 3
    /\ chunk_size = 2
    /\ Len(ChunksSent) = 2
    /\ Len(ChunksSent[2].file) = 1

\* C3: a failed start call or a failed chunk is the last thing the call does:
\* the call has raised and returns no value, and no later chunk and no
\* /upload/finish follows it in the log.
C3_UploadAtomicity ==
    \A i \in 1..Len(upLog) :
        ((IsStart(upLog[i]) \/ IsChunk(upLog[i])) /\ ~upLog[i].ok)
            => /\ i = Len(upLog)
               /\ upPc = "done"
               /\ upResult.out = "raise"

\* witness of C3: chunk 1 of 3 or more has failed
C3_Witness ==
    /\ Len(upLog) > 0
    /\ IsChunk(upLog[Len(upLog)])
    /\ ~upLog[Len(upLog)].ok
    /\ upLog[Len(upLog)].partindex = 1
    /\ upLog[Len(upLog)].totalparts >= 3
    /\ upPc = "done"

StartsIssued == SelectSeq(upLog, IsStart)
FinishesIssued == SelectSeq(upLog, IsFinish)
DownloadsIssued == SelectSeq(upLog, IsDownload)

\* the start call and every chunk sent have succeeded
AllSucceeded ==
    /\ Len(StartsIssued) = 1
    /\ StartsIssued[1].ok
    /\ \A i \in 1..Len(ChunksSent) : ChunksSent[i].ok

\* what request() hands back for a successful response to a POST
Returned(r) == IF r.body = "empty" THEN "Success with no content" ELSE r.payload

\* C9: at most one /upload/finish is issued; it is the last request, it follows
\* a successful start and the success of all ceil(S/C) chunks, and carries the
\* session id of that start, the file name and the digest of the source; a
\* finished call whose start and chunks all succeeded has issued it, and a
\* value is returned only as the outcome of the finish request.
C9_FinalizeOnce ==
    /\ Len(FinishesIssued) <= 1
    /\ \A i \in 1..Len(upLog) :
        IsFinish(upLog[i]) =>
            /\ i = Len(upLog)
            /\ AllSucceeded
            /\ Len(ChunksSent) = NumChunks
            /\ upLog[i].uuid = StartsIssued[1].resp.payload
            /\ upLog[i].filename = upSource.name
            /\ upLog[i].md5sum = hexdigest(upSource.content)
    /\ (upPc = "done" /\ AllSucceeded) => Len(FinishesIssued) = 1
    /\ upResult.out = "return" =>
        /\ Len(FinishesIssued) = 1
        /\ ResponseOk(FinishesIssued[1].resp)
        /\ upResult.val = Returned(FinishesIssued[1].resp)
    /\ (upPc = "done" /\ Len(FinishesIssued) = 1 /\ ResponseOk(FinishesIssued[1].resp))
        => upResult.out = "return"

\* witness of C9: a call of three chunks has returned the finish response
C9_Witness ==
    /\ upPc = "done"
    /\ upResult.out = "return"
    /\ upResult.val = "finalized"
    /\ Len(ChunksSent) = 3
    /\ Len(FinishesIssued) = 1

\* C10: at most one /upload/start is issued, and every call that got past the
\* source resolution has issued it; for a storage URL it follows the completed
\* download and a failed download is followed by nothing; no chunk is read or
\* sent before the start, and chunks are read from the local copy only.
C10_SessionStart ==
    /\ Len(StartsIssued) <= 1
    /\ upPc \in {"read", "send", "finish"} => Len(StartsIssued) = 1
    /\ (upPc = "done" /\ Len(StartsIssued) = 0) =>
            (Len(upLog) = 1 /\ IsDownload(upLog[1]) /\ ~upLog[1].ok)
    /\ \A i \in 1..Len(upLog) :
        /\ IsStart(upLog[i]) =>
            /\ \A j \in 1..(i - 1) : IsDownload(upLog[j]) /\ upLog[j].ok
            /\ SourceIsUrl <=> i = 2
            /\ SourceIsUrl => disk.tmp = File(upSource.content)
        /\ (IsRead(upLog[i]) \/ IsChunk(upLog[i])) =>
            \E j \in 1..(i - 1) : IsStart(upLog[j]) /\ upLog[j].ok
        /\ IsRead(upLog[i]) =>
            upLog[i].path = (IF SourceIsUrl THEN "tmp" ELSE "arg")
        /\ (IsDownload(upLog[i]) /\ ~upLog[i].ok) => (i = Len(upLog) /\ upPc = "done")

\* witness of C10: a storage-URL source downloaded, started and sent in chunks
C10_Witness ==
    /\ SourceIsUrl
    /\ upPc = "finish"
    /\ Len(DownloadsIssued) = 1
    /\ Len(StartsIssued) = 1
    /\ Len(ChunksSent) = 2

\* C11: the chunks of a call are sent in increasing partindex order 0, 1, 2,
\* ... without a gap; a chunk is sent only after every chunk before it was
\* answered with success (one request in flight at a time); and the digest
\* accumulator holds the bytes of the chunks in exactly the order in which
\* they are sent, the chunk about to be sent included.
C11_ChunkOrdering ==
    /\ \A i \in 1..Len(ChunksSent) :
        /\ ChunksSent[i].partindex = i - 1
        /\ i < Len(ChunksSent) => ChunksSent[i].ok
    /\ \A i \in 1..Len(upLog) : \A j \in (i + 1)..Len(upLog) :
        (IsChunk(upLog[i]) /\ IsChunk(upLog[j]))
            => /\ upLog[i].partindex < upLog[j].partindex
               /\ upLog[i].ok
    /\ upPc \in {"read", "send", "finish"} =>
        file_hash = Concat(ChunksSent) \o (IF upPc = "send" THEN chunk ELSE <<>>)
    /\ \A i \in 1..Len(upLog) :
        IsFinish(upLog[i]) => upLog[i].md5sum = hexdigest(Concat(ChunksSent))

\* witness of C11: three chunks of different bytes sent, the digest taken
C11_Witness ==
    /\ upPc = "done"
    /\ Len(FinishesIssued) = 1
    /\ Len(ChunksSent) = 3
    /\ ChunksSent[1].file # ChunksSent[3].file
    /\ ChunksSent[3].partindex = 2

\* the events of the first and of the second session
IsAgain(e) == e.op = "again"
AgainAt == CHOOSE i \in 1..(Len(upLog) + 1) :
                i = Len(upLog) + 1 \/ IsAgain(upLog[i])
FirstSession == SubSeq(upLog, 1, AgainAt - 1)
SecondSession == SubSeq(upLog, AgainAt + 1, Len(upLog))

\* C12: every digest sent in a finish call is the digest of the whole source
\* content in byte-offset order; the finish calls of two sessions of the same
\* source carry the same digest, whatever the session ids and however the
\* content was split into chunks.
C12_DigestDeterminism ==
    /\ \A i \in 1..Len(upLog) :
        IsFinish(upLog[i]) => upLog[i].md5sum = hexdigest(upSource.content)
    /\ \A i \in 1..Len(upLog) : \A j \in 1..Len(upLog) :
        (IsFinish(upLog[i]) /\ IsFinish(upLog[j]))
            => upLog[i].md5sum = upLog[j].md5sum

\* witness of C12: two finished sessions of the same three bytes, with
\* different session ids and a different number of chunks
C12_Witness ==
    /\ upPc = "done"
    /\ SourceSize = 3
    /\ upSource.content[1] # upSource.content[3]
    /\ Len(SelectSeq(FirstSession, IsFinish)) = 1
    /\ Len(SelectSeq(SecondSession, IsFinish)) = 1
    /\ SelectSeq(FirstSession, IsFinish)[1].uuid # SelectSeq(SecondSession, IsFinish)[1].uuid
    /\ Len(SelectSeq(FirstSession, IsChunk)) = 3
    /\ Len(SelectSeq(SecondSession, IsChunk)) = 2

\* ------------------------------------------------------------------------
\* Properties of the synchronisation operations
\* ------------------------------------------------------------------------
\* the composite key of the relation: the referenced id, numeric ids and
\* their string form being the same key, plus the role or instrument; tracks
\* are keyed by the asset id as it is given
RelationKey(r, x) == IF r = "tracks" THEN <<x.ref>> ELSE <<x.ref.n, x.disc>>

ExistingRelationKeys == {RelationKey(rel, existing[i]) : i \in 1..Len(existing)}
DesiredRelationKeys == {RelationKey(rel, desired[i]) : i \in 1..Len(desired)}

DesiredKeysDistinct ==
    \A i, j \in 1..Len(desired) :
        i # j => RelationKey(rel, desired[i]) # RelationKey(rel, desired[j])

IsMutation(c) == c.op \in {"add", "update", "remove", "reposition"}
InThisRun(c) == c.run = run
CallsOfRun == SelectSeq(calls, InThisRun)
\* the existing-state fetch of this run succeeded
Fetched == \E i \in 1..Len(calls) : calls[i].run = run /\ calls[i].op = "fetch" /\ calls[i].ok

\* the existing items with a given id
ExistingWithId(id) == {existing[i] : i \in {j \in 1..Len(existing) : existing[j].id = id}}

\* C4: an item present in the existing state and in the desired list under
\* the same composite key is neither added nor removed.
C4_KeySymmetry ==
    \A k \in 1..Len(calls) :
        LET c == calls[k] IN
        c.run = run =>
            /\ c.op = "add" => RelationKey(rel, desired[c.di]) \notin ExistingRelationKeys
            /\ c.op = "remove" =>
                \A e \in ExistingWithId(c.id) : RelationKey(rel, e) \notin DesiredRelationKeys

\* the remove calls of this run on the item with this id
RemovesOf(id) == {k \in 1..Len(calls) :
                    calls[k].run = run /\ calls[k].op = "remove" /\ calls[k].id = id}

\* C5: when a sync call has completed, every existing item whose key is
\* absent from the desired list has received exactly one remove call.
C5_Deletion ==
    (syPc = "done" /\ syResult.out = "return" /\ Fetched) =>
        \A i \in 1..Len(existing) :
            RelationKey(rel, existing[i]) \notin DesiredRelationKeys
                => Cardinality(RemovesOf(existing[i].id)) = 1

\* C6: the second of two runs of an update_or_create_* operation with the
\* same desired list (of distinct keys), the remote having applied every call
\* of the first, issues no add, update or remove call.
C6_Idempotence ==
    (rel # "tracks" /\ DesiredKeysDistinct) =>
        \A k \in 1..Len(calls) : calls[k].run = 2 => ~IsMutation(calls[k])

\* the calls a run issues when none of them fails
ExpectedCallCount ==
    CASE rel \in CreditRels ->
            Cardinality({i \in 1..Len(desired) :
                DesiredKey(rel, desired[i]) \notin ExistingKeys(rel, existing)})
            + Cardinality({j \in 1..Len(existing) :
                RemovalKey(rel, existing[j]) \notin DesiredKeys(rel, desired)})
      [] rel = "identifiers" ->
            Cardinality({i \in 1..Len(desired) :
                LET key == DesiredKey(rel, desired[i]) IN
                \/ key \notin ExistingKeys(rel, existing)
                \/ /\ ~ReportBack(desired[i], Lookup(rel, existing, key))
                   /\ IdentifierDiffers(desired[i], Lookup(rel, existing, key))})
      [] rel = "tracks" ->
            Len(TracksToAdd(existing, desired)) + Len(TracksToRemove(existing, desired))
            + Len(TracksToReorder(existing, desired))

MutationsOfRun == SelectSeq(CallsOfRun, IsMutation)

\* C8: a failed add, update, remove or reposition call does not end the
\* call with an error: the remaining items are processed, as many calls are
\* issued as in a run without the failure, and the call returns normally.
C8_LenientFailures ==
    (\E k \in 1..Len(calls) : IsMutation(calls[k]) /\ ~calls[k].ok) =>
        /\ syResult.out # "raise"
        /\ syPc = "done" =>
            /\ syResult.out = "return"
            /\ Len(MutationsOfRun) = ExpectedCallCount

\* ---- the report-back rule of update_or_create_identifiers
\* the existing identifier of the issuing organization of d
ExistingOf(d) == CHOOSE e \in {existing[i] : i \in 1..Len(existing)} : e.ref.n = d.ref.n
HasExisting(d) == \E i \in 1..Len(existing) : existing[i].ref.n = d.ref.n

\* desired entry i meets the report-back condition
MustReportBack(i) ==
    /\ HasExisting(desired[i])
    /\ desired[i].newFlag
    /\ ~ExistingOf(desired[i]).newFlag

\* desired entries processed so far
Processed ==
    IF ~Fetched THEN 0
    ELSE IF syPc = "desired" THEN syIdx - 1
    ELSE Len(desired)

\* the existing items of the first n desired entries that meet the condition
RECURSIVE ReportList(_)
ReportList(n) ==
    IF n = 0 THEN <<>>
    ELSE IF MustReportBack(n) THEN Append(ReportList(n - 1), ExistingOf(desired[n]))
    ELSE ReportList(n - 1)

\* the key of desired entry i occurs once in the desired list
OnceDesired(i) == \A j \in 1..Len(desired) : desired[j].ref.n = desired[i].ref.n => j = i

\* C7: a desired identifier that meets the report-back condition causes no
\* create, update or delete call (where its key is desired once, no call is
\* made for that key at all), whatever the identifier values are; the
\* report-back list holds exactly the existing items of the desired entries
\* that meet the condition, in desired order, and is what the call returns.
C7_ReportBack ==
    rel = "identifiers" =>
        /\ \A i \in 1..Len(desired) :
            (Fetched /\ MustReportBack(i)) =>
                \A k \in 1..Len(calls) :
                    (calls[k].run = run /\ IsMutation(calls[k])) =>
                        /\ calls[k].di # i
                        /\ OnceDesired(i) =>
                            /\ calls[k].id # ExistingOf(desired[i]).id
                            /\ desired[calls[k].di].ref.n # desired[i].ref.n
        /\ identifiers_to_update_in_cm = ReportList(Processed)
        /\ (syPc = "done" /\ Fetched) =>
            /\ syResult.out = "return"
            /\ syResult.val = ReportList(Len(desired))

\* witness of C7: a completed call that reported back an identifier whose
\* value differs from the desired one, next to an entry that was updated
C7_Witness ==
    /\ rel = "identifiers"
    /\ syPc = "done"
    /\ Fetched
    /\ Len(syResult.val) = 1
    /\ Len(desired) = 2
    /\ MustReportBack(1)
    /\ desired[1].identifier = "x"
    /\ ExistingOf(desired[1]).identifier = "None"
    /\ Len(calls) = 2
    /\ calls[2].op = "update"

\* ------------------------------------------------------------------------
\* Properties of the list generators
\* ------------------------------------------------------------------------
PageTerminated == pgPc \in {"done", "raised"}

\* `limit or total`
LimitOrTotal == IF pgLimit = NoLimit \/ pgLimit = 0 THEN pgTotal ELSE pgLimit

C13_PaginationLimit ==
    pgLimit # NoLimit =>
        /\ Len(pgYielded) <= pgLimit
        /\ (fetched_count >= pgLimit /\ fetched_count > 0) =>
            /\ pgPc = "done"
            /\ pgRequests[Len(pgRequests)] = pgPage

\* the limit is unset or not reached
BelowLimit == ~LimitReached(pgLimit, fetched_count)

\* C14: a page of zero items, received while the count of yielded items is
\* below the reported total and below the limit, ends the iteration: the
\* generator's next step is to stop, without raising and without another
\* page request.
C14_EmptyPage ==
    /\ []((pgPc \in {"iterate", "done"} /\ Len(pgRequests) > 0
            /\ Len(pgResp.items) = 0 /\ fetched_count < pgResp.total /\ BelowLimit)
          => (pgPc = "iterate" => pgIdx > Len(pgResp.items)))
    /\ [][(pgPc = "iterate" /\ Len(pgResp.items) = 0
            /\ fetched_count < pgResp.total /\ BelowLimit)
          => (pgPc' = "done" /\ pgRequests' = pgRequests /\ pgYielded' = pgYielded)]_vars

\* witness of C14: the second page came back empty with items still owed
C14_Witness ==
    /\ pgPc = "done"
    /\ Len(pgRequests) = 2
    /\ Len(pgResp.items) = 0
    /\ fetched_count = 2
    /\ pgResp.total = 5
    /\ pgLimit = 3

\* C15: when the request for page k has failed the generator has raised and
\* does nothing more: the pages start..k were requested once each, in order,
\* the failed one last, and the consumer holds every item of the pages
\* start..k-1, once each and in the endpoint's order.
C15_PaginationFailure ==
    /\ [](pgPc = "raised" =>
            /\ pgRequests = [i \in 1..(pgPage - pgStart + 1) |-> pgStart + i - 1]
            /\ pgYielded = [i \in 1..Max(0, Min(pgTotal, pgPage * pgSize) - pgStart * pgSize)
                                |-> pgStart * pgSize + i - 1]
            /\ fetched_count = Len(pgYielded))
    /\ [][pgPc = "raised" => UNCHANGED pageVars]_vars
    /\ [][(pgPc = "request" /\ pgPc' # "iterate") =>
            (pgPc' = "raised" /\ pgYielded' = pgYielded)]_vars

\* witness of C15: the third page failed after two pages of two items
C15_Witness ==
    /\ pgPc = "raised"
    /\ pgStart = 0
    /\ pgSize = 2
    /\ pgRequests = <<0, 1, 2>>
    /\ pgYielded = <<0, 1, 2, 3>>

FetchFailed ==
    \E i \in 1..Len(calls) : calls[i].run = run /\ calls[i].op = "fetch" /\ ~calls[i].ok

\* what a run that went through all its loops hands back: the report-back
\* dictionary for identifiers, None for the others
CompletedKind == IF rel = "identifiers" THEN "dict" ELSE "None"

\* C17: a call whose existing-state fetch failed has issued no add, update,
\* remove or reposition call, and its outcome differs from the outcome of a
\* run that completed: it raises, or returns something no completed run
\* returns.
C17_FetchFailureReported ==
    (syPc = "done" /\ FetchFailed) =>
        /\ Len(MutationsOfRun) = 0
        /\ \/ syResult.out = "raise"
           \/ syResult.kind # CompletedKind

\* the successful fetch calls of run r issued before call k
FetchesBefore(k) ==
    {j \in 1..(k - 1) : calls[j].run = calls[k].run /\ calls[j].op = "fetch"}

\* C18: every add, update, remove and reposition call is preceded by exactly
\* one existing-state fetch of the same run, and that fetch succeeded; a run
\* issues one fetch at most, before its first mutation; the snapshot is
\* written by that fetch only and every add and update is decided on it.
C18_SingleSnapshot ==
    /\ [](\A k \in 1..Len(calls) :
            /\ IsMutation(calls[k]) =>
                /\ Cardinality(FetchesBefore(k)) = 1
                /\ \A j \in FetchesBefore(k) : calls[j].ok
            /\ calls[k].op = "fetch" => FetchesBefore(k) = {})
    /\ [](\A k \in 1..Len(calls) :
            (calls[k].run = run /\ rel # "tracks") =>
                /\ calls[k].op = "add" =>
                    DesiredKey(rel, desired[calls[k].di]) \notin ExistingKeys(rel, existing)
                /\ calls[k].op = "update" =>
                    \E i \in 1..Len(existing) :
                        /\ existing[i].id = calls[k].id
                        /\ ExistingKey(rel, existing[i]) = DesiredKey(rel, desired[calls[k].di]))
    /\ [](\A k \in 1..Len(calls) :
            (calls[k].run = run /\ rel = "tracks") =>
                /\ calls[k].op = "add" =>
                    desired[calls[k].di].ref \notin CurrentIds(existing)
                /\ calls[k].op = "reposition" =>
                    desired[calls[k].di].ref \in CurrentIds(existing))
    /\ [][(existing' # existing /\ run' = run) =>
            /\ Len(calls') = Len(calls) + 1
            /\ calls'[Len(calls')].op = "fetch"
            /\ calls'[Len(calls')].ok
            /\ existing' = remote]_vars

\* witness of C18: a first run that, deciding on its snapshot, added the same
\* key twice, and a second run that has fetched a snapshot of its own
C18_Witness ==
    /\ run = 2
    /\ rel = "contributors"
    /\ Fetched
    /\ Len(desired) = 2
    /\ DesiredKey(rel, desired[1]) = DesiredKey(rel, desired[2])
    /\ Len(SelectSeq(calls, LAMBDA c : c.op = "add")) = 2
    /\ Len(SelectSeq(calls, LAMBDA c : c.op = "fetch")) = 2
    /\ Len(existing) = 2

\* the empty string and null are one value
Normalised(v) == IF v \in {"", "None"} THEN "None" ELSE v

\* the mutation calls of this run made for desired entry i
CallsFor(i) ==
    {k \in 1..Len(calls) : calls[k].run = run /\ IsMutation(calls[k]) /\ calls[k].di = i}

\* C19: a processed desired identifier whose issuing organization has an
\* existing identifier and which does not meet the report-back condition has
\* caused one update call, on the existing item's id (the desired entry is
\* the call's payload), when the identifier values differ after the empty
\* string and null are made one value, and no call when they are equal then.
C19_UpdateOnDifference ==
    (rel = "identifiers" /\ Fetched) =>
        \A i \in 1..Processed :
            (HasExisting(desired[i]) /\ ~MustReportBack(i)) =>
                IF Normalised(desired[i].identifier)
                        # Normalised(ExistingOf(desired[i]).identifier)
                    THEN /\ Cardinality(CallsFor(i)) = 1
                         /\ \A k \in CallsFor(i) :
                                /\ calls[k].op = "update"
                                /\ calls[k].id = ExistingOf(desired[i]).id
                    ELSE CallsFor(i) = {}

\* witness of C19: a completed call that updated one identifier and left
\* alone another whose value is null remotely and the empty string locally
C19_Witness ==
    /\ rel = "identifiers"
    /\ syPc = "done"
    /\ Fetched
    /\ Len(desired) = 2
    /\ Len(existing) = 2
    /\ \A i \in 1..2 : HasExisting(desired[i]) /\ ~MustReportBack(i)
    /\ desired[1].identifier = "x"
    /\ ExistingOf(desired[1]).identifier = "None"
    /\ desired[2].identifier = ""
    /\ ExistingOf(desired[2]).identifier = "None"
    /\ Cardinality(CallsFor(1)) = 1
    /\ CallsFor(2) = {}

\* the reposition calls of this run on the asset with this id
RepositionsOf(id) == {k \in 1..Len(calls) :
                        calls[k].run = run /\ calls[k].op = "reposition" /\ calls[k].id = id}

\* C20: when update_tracks has ended, the desired ids being distinct: a
\* desired track whose id is in the current asset set has received one
\* reposition call (the call of its desired entry, which carries the entry's
\* sequence) and no add or remove; a desired track not in the current set
\* has received one add and no reposition; a current asset absent from the
\* desired list has received one remove.  Sequences are any values, equal
\* ones and gaps included.
C20_TrackOrdering ==
    (rel = "tracks" /\ syPc = "done" /\ Fetched /\ DesiredKeysDistinct) =>
        /\ \A i \in 1..Len(desired) :
            IF desired[i].ref \in CurrentIds(existing)
                THEN /\ Cardinality(CallsFor(i)) = 1
                     /\ \A k \in CallsFor(i) :
                            calls[k].op = "reposition" /\ calls[k].id = desired[i].ref.n
                     /\ RemovesOf(desired[i].ref.n) = {}
                ELSE /\ Cardinality(CallsFor(i)) = 1
                     /\ \A k \in CallsFor(i) : calls[k].op = "add"
        /\ \A j \in 1..Len(existing) :
            existing[j].ref \notin NewIds(desired)
                => /\ Cardinality(RemovesOf(existing[j].id)) = 1
                   /\ RepositionsOf(existing[j].id) = {}

\* desired entry i has an existing identifier of equal value, the empty
\* string and null being one value
SameValue(i) ==
    /\ HasExisting(desired[i])
    /\ Normalised(desired[i].identifier) = Normalised(ExistingOf(desired[i]).identifier)

\* C29: a desired identifier whose key exists and whose value equals the
\* existing one after normalisation causes no call, whatever the two flags
\* are; the step that processes an entry with flag false against an existing
\* flag true issues no call, changes nothing remotely and leaves the
\* report-back list as it is.
C29_FlagDifferenceNoMutation ==
    /\ []((rel = "identifiers" /\ Fetched) =>
            \A i \in 1..Processed : SameValue(i) => CallsFor(i) = {})
    /\ [][(rel = "identifiers" /\ syPc = "desired" /\ SameValue(syIdx)
            /\ ~desired[syIdx].newFlag /\ ExistingOf(desired[syIdx]).newFlag)
          => /\ calls' = calls
             /\ remote' = remote
             /\ identifiers_to_update_in_cm' = identifiers_to_update_in_cm]_vars

\* witness of C29: a completed call on one entry with flag false, the
\* existing flag true, the values null and the empty string: nothing done
C29_Witness ==
    /\ rel = "identifiers"
    /\ syPc = "done"
    /\ Fetched
    /\ Len(desired) = 1
    /\ SameValue(1)
    /\ desired[1].identifier = ""
    /\ ExistingOf(desired[1]).identifier = "None"
    /\ ~desired[1].newFlag
    /\ ExistingOf(desired[1]).newFlag
    /\ Len(MutationsOfRun) = 0
    /\ syResult.val = <<>>

\* C30: for a source of size 0 the call, once the source is resolved, issues
\* the start call; after a successful start it counts 0 chunks, sends none,
\* and issues exactly one finish call, with the digest of the empty byte
\* string.
C30_EmptySource ==
    SourceSize = 0 =>
        /\ Len(ChunksSent) = 0
        /\ (upPc = "done" /\ \A i \in 1..Len(upLog) : IsDownload(upLog[i]) => upLog[i].ok)
            => Len(StartsIssued) = 1
        /\ (Len(StartsIssued) = 1 /\ StartsIssued[1].ok) =>
            /\ total_chunks = 0
            /\ upPc = "done" =>
                /\ Len(FinishesIssued) = 1
                /\ FinishesIssued[1].md5sum = hexdigest(<<>>)
                /\ upLog[Len(upLog)] = FinishesIssued[1]

\* witness of C30: an empty source uploaded and finished
C30_Witness ==
    /\ SourceSize = 0
    /\ upPc = "done"
    /\ Len(StartsIssued) = 1
    /\ Len(FinishesIssued) = 1
    /\ upResult.out = "return"
    /\ upResult.val = "finalized"

\* C28: started at page p > 0 without a limit against a consistent endpoint
\* of T items, the count of yielded items stays below T whenever an item was
\* yielded; the finished generator has yielded the max(0, T - p*page_size)
\* items from page p on, in order, and the last page it requested (and
\* received) was empty.
C28_StartPageAboveZero ==
    (pgStart > 0 /\ pgLimit = NoLimit) =>
        /\ fetched_count > 0 => fetched_count < pgTotal
        /\ Len(pgYielded) <= Max(0, pgTotal - pgStart * pgSize)
        /\ pgPc = "done" =>
            /\ Len(pgYielded) = Max(0, pgTotal - pgStart * pgSize)
            /\ \A i \in 1..Len(pgYielded) : pgYielded[i] = pgStart * pgSize + i - 1
            /\ Len(pgResp.items) = 0
            /\ pgRequests[Len(pgRequests)] = pgPage
            /\ PageLen(pgTotal, pgSize, pgPage) = 0

\* witness of C28: 5 items in pages of 2, started at page 1: 3 items
\* yielded, then page 3 came back empty
C28_Witness ==
    /\ pgPc = "done"
    /\ pgStart = 1
    /\ pgLimit = NoLimit
    /\ pgTotal = 5
    /\ pgSize = 2
    /\ pgYielded = <<2, 3, 4>>
    /\ pgRequests = <<1, 2, 3>>

\* C21: an operation called while the parent resource id is unset raises
\* ValueError to its caller and has issued no request.
C21_ValidationBeforeNetwork ==
    (~parent_id /\ syPc = "done") =>
        /\ calls = <<>>
        /\ syResult.out = "raise"
        /\ syResult.kind = "ValueError"

\* ------------------------------------------------------------------------
\* Properties of request()
\* ------------------------------------------------------------------------
\* a success response with a non-empty body that is neither JSON nor audio
UnstructuredSuccess ==
    /\ reqPc = "done"
    /\ reqResp.status # 0
    /\ ResponseOk(reqResp)
    /\ reqResp.body = "text"
    /\ ~IsAudio(reqResp)

\* C22: a 4xx/5xx response makes request() raise requests.HTTPError, the
\* error that carries the response, and return no value.
C22_TransportErrorClass ==
    (reqPc = "done" /\ reqResp.status >= 400) =>
        /\ reqResult.out = "raise"
        /\ reqResult.kind = "HTTPError"

\* C23: for every 2xx status and every method, an empty body makes
\* request() return 'Success with no content' and never raise.
C23_EmptyBodiedSuccess ==
    (/\ reqPc = "done"
     /\ reqResp.status >= 200
     /\ reqResp.status < 300
     /\ reqResp.body = "empty") =>
        reqResult = Return("str", "Success with no content")

\* C24 as stated: for every method, a success response with a non-empty
\* body that is neither JSON nor audio raises the format error and is never
\* returned as it is.
C24_FormatError ==
    UnstructuredSuccess =>
        reqResult = Raise("Exception", "Unexpected response format")

\* C24: such a response raises the format error, except for a DELETE
\* answered with status 200, whose body is returned as plain text.
C24_FormatErrorExceptDelete ==
    UnstructuredSuccess =>
        IF reqMethod = "DELETE" /\ reqResp.status = 200
            THEN reqResult = Return("str", reqResp.payload)
            ELSE reqResult = Raise("Exception", "Unexpected response format")

C24_Witness ==
    /\ UnstructuredSuccess
    /\ reqMethod = "POST"
    /\ reqResp.status = 200
    /\ reqResult = Raise("Exception", "Unexpected response format")

\* C25: upload_video called with the asset id set runs the upload protocol
\* (start, chunks, finish) and returns what the finish request returns.
C25_VideoChunkSize ==
    (upEntry = "upload_video" /\ owner_id /\ upPc = "done") =>
        /\ upResult # Raise("TypeError", "unexpected keyword argument 'chunk_size'")
        /\ (\A i \in 1..Len(DownloadsIssued) : DownloadsIssued[i].ok) =>
              Len(StartsIssued) = 1
        /\ AllSucceeded =>
              /\ Len(FinishesIssued) = 1
              /\ upResult = Request("POST", FinishesIssued[1].resp)

\* the chunks and the digest in a call's requests are those of its source
OwnSourceOnly(log, src, size) ==
    \A i \in 1..Len(log) :
        /\ log[i].op = "chunk" =>
              /\ log[i].file = ReadAt(src.content, log[i].partbyteoffset, size)
              /\ log[i].totalfilesize = Len(src.content)
        /\ log[i].op = "finish" => log[i].md5sum = hexdigest(src.content)

\* C26: of two interleaved upload_file calls, each sends the chunks and the
\* digest of its own source, as it does when run alone.
C26_NoSharedState ==
    /\ OwnSourceOnly(upLog, upSource, chunk_size)
    /\ OwnSourceOnly(upOther.upLog, upOther.upSource, upOther.chunk_size)

\* the pages requested are start, start + 1, ... in that order, each once
ConsecutivePages(requests, start) ==
    \A i \in 1..Len(requests) : requests[i] = start + i - 1

\* a step of the running generator that issues a request
RequestStep == pgOther' = pgOther /\ pgRequests' # pgRequests

\* C27: each generator requests the pages start, start + 1, ... in order and
\* once each; the page index moves by one, after a page's loop and before
\* the next request; a request is issued only when every item of the page
\* before has been delivered and the consumer has asked for more, never
\* while the generator stands at a yield; and the locals of a suspended
\* generator change by no step of the other one.
C27_PageCursorAndLaziness ==
    /\ [](/\ ConsecutivePages(pgRequests, pgStart)
          /\ ConsecutivePages(pgOther.pgRequests, pgOther.pgStart))
    /\ [][RequestStep =>
            /\ pgPc = "request"
            /\ pgRequests' = Append(pgRequests, pgPage)
            /\ fetched_count = Len(pgYielded)
            /\ pgRequests # <<>> =>
                  /\ pgResp.items # <<>>
                  /\ pgIdx = Len(pgResp.items) + 1
                  /\ SubSeq(pgYielded, Len(pgYielded) - Len(pgResp.items) + 1,
                            Len(pgYielded)) = pgResp.items]_vars
    /\ [][(pgOther' = pgOther /\ pgPage' # pgPage) =>
            /\ pgPage' = pgPage + 1
            /\ pgRequests # <<>>
            /\ pgRequests[Len(pgRequests)] = pgPage
            /\ pgPc' = "request"]_vars
    /\ [][(pgOther' = pgOther /\ pgPc = "yielded") =>
            /\ pgRequests' = pgRequests
            /\ pgPage' = pgPage]_vars
    /\ [][pgOther' # pgOther =>
            /\ pgOther' = PageLocals
            /\ PageLocals' = pgOther]_vars

C27_Witness ==
    /\ pgStart = 1
    /\ pgOther.pgStart = 0
    /\ pgPc = "yielded"
    /\ pgOther.pgPc = "yielded"
    /\ pgRequests = <<1, 2>>
    /\ pgOther.pgRequests = <<0, 1>>
    /\ pgPage = 2
    /\ pgOther.pgPage = 1

====
